---- MODULE Spec2Model ----
(***************************************************************************)
(* Model of TestnetTradeActionProvider (src/src/actions/customDexTrade.ts). *)
(*                                                                         *)
(* Strings are sequences of tokens.  A decimal or integer string is a      *)
(* sequence of one-character tokens ("0".."9", "."); a message is a        *)
(* sequence of literal fragments and embedded values, white space between  *)
(* tokens left out.  A bigint is a digit string without leading zeros.     *)
(* An optional value is a sequence of length 0 (absent: null / undefined)  *)
(* or 1 (present).                                                         *)
(***************************************************************************)
EXTENDS Integers, Sequences, FiniteSets, TLC

VARIABLES
    pc,            \* position of the trade invocation
    args,          \* the TradeRequest handed to trade
    fromAddress,   \* normalized from-token address (line 56)
    parsedAmount,  \* base-unit input amount (line 86)
    route,         \* what router.route resolved to (line 99)
    balance,       \* what getBalance resolved to (line 166)
    txHash,        \* what sendTransaction resolved to (line 182)
    receipt,       \* what waitForTransactionReceipt resolved to (line 201)
    calls,         \* external calls issued so far, in order
    sent,          \* the transaction requests handed to sendTransaction
    fault,         \* the value a collaborator threw, if any
    result,        \* how trade ended: returned string, or an escaped fault
    cstage,        \* amount codec harness: position
    cvalue,        \* amount codec harness: decimal string
    cdecimals,     \* amount codec harness: precision
    cparsed,       \* amount codec harness: parseUnits result
    cformatted,    \* amount codec harness: formatUnits result
    inv            \* concurrent invocations of trade: the locals of each call

tradeVars == <<pc, args, fromAddress, parsedAmount, route, balance, txHash,
               receipt, calls, sent, fault, result>>
codecVars == <<cstage, cvalue, cdecimals, cparsed, cformatted>>
vars == <<pc, args, fromAddress, parsedAmount, route, balance, txHash,
          receipt, calls, sent, fault, result,
          cstage, cvalue, cdecimals, cparsed, cformatted, inv>>

-----------------------------------------------------------------------------
(* Bounds of the model *)

MaxRoutes == 1
MaxPools == 2
MaxWhole == 2
MaxFraction == 3
MaxDecimals == 3

(* Program constants *)

TOKEN_DECIMALS == 18
CHAIN_ID == 84532

-----------------------------------------------------------------------------
(* Strings *)

None == << >>
Some(x) == <<x>>
IsSome(o) == Len(o) > 0
Get(o) == o[1]
OrElse(o, d) == IF IsSome(o) THEN Get(o) ELSE d

Min(a, b) == IF a < b THEN a ELSE b
Max(a, b) == IF a > b THEN a ELSE b

DigitChars == <<"0", "1", "2", "3", "4", "5", "6", "7", "8", "9">>
DigitSet == {DigitChars[i] : i \in 1..10}
DigitVal(c) == CHOOSE i \in 0..9 : DigitChars[i + 1] = c

Repeat(c, n) == [i \in 1..n |-> c]

\* String.prototype.includes
Includes(s, needle) ==
    \E i \in 0..(Len(s) - Len(needle)) :
        \A j \in 1..Len(needle) : s[i + j] = needle[j]

\* String.prototype.startsWith
StartsWith(s, prefix) ==
    /\ Len(prefix) <= Len(s)
    /\ \A j \in 1..Len(prefix) : s[j] = prefix[j]

\* String.prototype.slice(start, end): a negative index counts from the end,
\* -0 is 0.
SliceIndex(i, len) == IF i < 0 THEN Max(len + i, 0) ELSE Min(i, len)
Slice(s, start, end) ==
    LET a == SliceIndex(start, Len(s))
        b == SliceIndex(end, Len(s))
    IN  IF a >= b THEN << >> ELSE SubSeq(s, a + 1, b)

\* String.prototype.padEnd / padStart with a one-character filler: a string at
\* least targetLength long is returned unchanged.
PadEnd(s, targetLength, c) ==
    IF Len(s) >= targetLength THEN s ELSE s \o Repeat(c, targetLength - Len(s))
PadStart(s, targetLength, c) ==
    IF Len(s) >= targetLength THEN s ELSE Repeat(c, targetLength - Len(s)) \o s

\* value.replace(/0+$/, '')
RECURSIVE StripTrailingZeros(_)
StripTrailingZeros(s) ==
    IF Len(s) > 0 /\ s[Len(s)] = "0"
    THEN StripTrailingZeros(SubSeq(s, 1, Len(s) - 1))
    ELSE s

\* value.split('.'): the segments between the separators
RECURSIVE Split(_)
Split(s) ==
    IF \A i \in 1..Len(s) : s[i] # "."
    THEN <<s>>
    ELSE LET k == CHOOSE i \in 1..Len(s) :
                      s[i] = "." /\ \A j \in 1..(i - 1) : s[j] # "."
         IN  <<SubSeq(s, 1, k - 1)>> \o Split(SubSeq(s, k + 1, Len(s)))

-----------------------------------------------------------------------------
(* Amount codec (lines 249-262) *)

parseUnits(value, decimals) ==
    LET parts == Split(value)
        whole == parts[1]
        fraction == IF Len(parts) >= 2 THEN parts[2] ELSE << >>
        paddedFraction == PadEnd(fraction, decimals, "0")
    IN  whole \o paddedFraction

formatUnits(value, decimals) ==
    LET v == IF Len(value) <= decimals
             THEN PadStart(value, decimals + 1, "0") ELSE value
        whole == Slice(v, 0, -decimals)
        fraction == StripTrailingZeros(Slice(v, -decimals, Len(v)))
    IN  IF Len(fraction) > 0 THEN whole \o <<".">> \o fraction ELSE whole

-----------------------------------------------------------------------------
(* Big integers (JSBI.BigInt, BigInt) as digit strings *)

RECURSIVE StripLeadingZeros(_)
StripLeadingZeros(s) ==
    IF Len(s) > 1 /\ s[1] = "0" THEN StripLeadingZeros(Tail(s)) ELSE s

IsDigits(s) == \A i \in 1..Len(s) : s[i] \in DigitSet

\* a < b for two digit strings without leading zeros
BigLess(a, b) ==
    \/ Len(a) < Len(b)
    \/ /\ Len(a) = Len(b)
       /\ \E i \in 1..Len(a) :
              /\ \A j \in 1..(i - 1) : a[j] = b[j]
              /\ DigitVal(a[i]) < DigitVal(b[i])

BigZero == <<"0">>

-----------------------------------------------------------------------------
(* Thrown values.  type "DexError": the module's DexError (lines 29-38);   *)
(* "Error": any other Error instance, text is its message; "string": a     *)
(* thrown primitive string (no message property); "opaque": an object      *)
(* without message that String() cannot convert (Object.create(null));     *)
(* "null": a thrown null or undefined.                                     *)

DexError(message, code) == [type |-> "DexError", code |-> code, text |-> message]
Error(message) == [type |-> "Error", code |-> "", text |-> message]
TypeError(message) == Error(message)
SyntaxError(message) == Error(message)

\* error instanceof DexError, error instanceof Error
IsDexError(e) == e.type = "DexError"
IsError(e) == e.type \in {"DexError", "Error"}

\* String(error) for a value that is no Error: [ok, text], or the TypeError it
\* throws
StringOf(e) ==
    CASE e.type = "string" -> [ok |-> TRUE, text |-> e.text]
      [] e.type = "null" -> [ok |-> TRUE, text |-> <<"null">>]
      [] OTHER -> [ok |-> FALSE,
                   text |-> <<"Cannot convert object to primitive value">>]

\* error.message?.includes(needle), for an error that is not null
MessageIncludes(e, needle) == IsError(e) /\ Includes(e.text, needle)

NoRouteFound == <<"no", "route", "found">>
InsufficientLiquidity == <<"insufficient", "liquidity">>
InsufficientFunds == <<"insufficient", "funds">>

NullMessageTypeError ==
    TypeError(<<"Cannot read properties of null (reading 'message')">>)

\* the handler of router.route's rejection (lines 104-119): what it throws
RouteCatchLiquidityFirst(error) ==
    IF error.type = "null" THEN NullMessageTypeError
    ELSE IF MessageIncludes(error, InsufficientLiquidity)
    THEN DexError(<<"Insufficient liquidity in the pool for this trade.">>,
                  "NO_LIQUIDITY")
    ELSE IF MessageIncludes(error, NoRouteFound)
    THEN DexError(<<"No valid trading route found.",
                    "This likely means there is no liquidity pool for this pair.">>,
                  "NO_ROUTE")
    ELSE error

RouteCatch(error) ==
    IF error.type = "null" THEN NullMessageTypeError
    ELSE IF MessageIncludes(error, NoRouteFound)
    THEN DexError(<<"No valid trading route found.",
                    "This likely means there is no liquidity pool for this pair.">>,
                  "NO_ROUTE")
    ELSE IF MessageIncludes(error, InsufficientLiquidity)
    THEN DexError(<<"Insufficient liquidity in the pool for this trade.">>,
                  "NO_LIQUIDITY")
    ELSE error

\* the handler of sendTransaction's rejection (lines 186-199): what it throws
SendCatch(error) ==
    IF error.type = "null" THEN NullMessageTypeError
    ELSE IF MessageIncludes(error, InsufficientFunds)
    THEN DexError(<<"Insufficient funds to execute the trade">>, "EXECUTION_ERROR")
    ELSE DexError(<<"Failed to execute the trade">>, "EXECUTION_ERROR")

\* the inner catch (lines 212-222): what it throws
InnerCatchRethrow(error) == error

InnerCatch(error) ==
    IF IsDexError(error) THEN error
    ELSE IF IsError(error)
    THEN DexError(<<"Failed to initialize trade:">> \o error.text, "UNKNOWN")
    ELSE IF StringOf(error).ok
    THEN DexError(<<"Failed to initialize trade:">> \o StringOf(error).text,
                  "UNKNOWN")
    ELSE TypeError(StringOf(error).text)

\* How trade ends: a returned string (with the code of the DexError behind it,
\* "" for success, "NOT_DEX_ERROR" for line 241), or a fault out of trade.
Returned(code, value) == [status |-> "returned", code |-> code, value |-> value]
Escaped(error) == [status |-> "thrown", code |-> "", value |-> error.text]
Pending == [status |-> "pending", code |-> "", value |-> << >>]

\* the outer catch (lines 223-242)
OuterCatch(error) ==
    IF IsDexError(error)
    THEN CASE error.code = "NO_ROUTE" ->
                  Returned(error.code,
                           <<"Trade failed:", "No valid trading route found.",
                             "This usually means there is no liquidity pool available for this token pair.">>)
           [] error.code = "NO_LIQUIDITY" ->
                  Returned(error.code,
                           <<"Trade failed:",
                             "The pool exists but has insufficient liquidity for this trade.">>)
           [] error.code = "AMOUNT_TOO_SMALL" ->
                  Returned(error.code, <<"Trade failed:">> \o error.text)
           [] error.code = "INSUFFICIENT_BALANCE" ->
                  Returned(error.code, <<"Trade failed:">> \o error.text)
           [] error.code = "EXECUTION_ERROR" ->
                  Returned(error.code,
                           <<"Trade failed during execution:">> \o error.text)
           [] OTHER ->
                  Returned(error.code,
                           <<"Trade failed with an unknown error:">> \o error.text)
    ELSE IF IsError(error)
    THEN Returned("NOT_DEX_ERROR", <<"Unexpected error during trade:">> \o error.text)
    ELSE IF StringOf(error).ok
    THEN Returned("NOT_DEX_ERROR",
                  <<"Unexpected error during trade:">> \o StringOf(error).text)
    ELSE Escaped(TypeError(StringOf(error).text))

-----------------------------------------------------------------------------
(* Amount codec harness: the codec applied to bounded decimal strings *)

CodecDigits == {"0", "1", "5"}

DigitStrings(n) == UNION {[1..k -> CodecDigits] : k \in 1..n}

\* non-negative decimal strings: digits, optionally "." and more digits
DecimalStrings ==
    DigitStrings(MaxWhole)
        \cup {w \o <<".">> \o f :
                 w \in DigitStrings(MaxWhole), f \in DigitStrings(MaxFraction)}

\* no trade has been invoked yet
NoRequest ==
    [amount |-> << >>, fromAssetId |-> "", toAssetId |-> "",
     fromAssetTicker |-> None, toAssetTicker |-> None]

\* trade keeps its state in the locals of each call (lines 55-201); the
\* provider object has no field (lines 40-43)
Invocations == {"first", "second"}

IdleInvocation ==
    [pc |-> "Idle", args |-> NoRequest, fromAddress |-> None,
     parsedAmount |-> None, route |-> None, balance |-> None, txHash |-> None,
     receipt |-> None, calls |-> << >>, fault |-> None, result |-> Pending]

IdleInvocations == inv = [i \in Invocations |-> IdleInvocation]

IdleTrade ==
    /\ pc = "Idle"
    /\ args = NoRequest
    /\ fromAddress = None
    /\ parsedAmount = None
    /\ route = None
    /\ balance = None
    /\ txHash = None
    /\ receipt = None
    /\ calls = << >>
    /\ sent = << >>
    /\ fault = None
    /\ result = Pending

IdleCodec ==
    /\ cstage = "Idle"
    /\ cvalue = << >>
    /\ cdecimals = 0
    /\ cparsed = << >>
    /\ cformatted = << >>

CodecChoose ==
    /\ cstage = "Idle"
    /\ \E d \in DecimalStrings, p \in 0..MaxDecimals :
           /\ cvalue' = d
           /\ cdecimals' = p
    /\ cstage' = "Chosen"
    /\ UNCHANGED <<cparsed, cformatted>>
    /\ UNCHANGED <<tradeVars, inv>>

CodecParse ==
    /\ cstage = "Chosen"
    /\ cparsed' = parseUnits(cvalue, cdecimals)
    /\ cstage' = "Parsed"
    /\ UNCHANGED <<cvalue, cdecimals, cformatted>>
    /\ UNCHANGED <<tradeVars, inv>>

CodecFormat ==
    /\ cstage = "Parsed"
    /\ cformatted' = formatUnits(cparsed, cdecimals)
    /\ cstage' = "Formatted"
    /\ UNCHANGED <<cvalue, cdecimals, cparsed>>
    /\ UNCHANGED <<tradeVars, inv>>

\* integer strings handed to formatUnits directly (line 204 hands it the
\* quote): any digit string, shorter than the precision included
RawStrings == DigitStrings(MaxWhole + MaxFraction)

CodecChooseRaw ==
    /\ cstage = "Idle"
    /\ \E v \in RawStrings, p \in 0..MaxDecimals :
           /\ cparsed' = v
           /\ cdecimals' = p
    /\ cstage' = "Raw"
    /\ UNCHANGED <<cvalue, cformatted>>
    /\ UNCHANGED <<tradeVars, inv>>

CodecFormatRaw ==
    /\ cstage = "Raw"
    /\ cformatted' = formatUnits(cparsed, cdecimals)
    /\ cstage' = "RawFormatted"
    /\ UNCHANGED <<cvalue, cdecimals, cparsed>>
    /\ UNCHANGED <<tradeVars, inv>>

CodecInit == IdleTrade /\ IdleCodec /\ IdleInvocations

CodecNext ==
    \/ CodecChoose
    \/ CodecParse
    \/ CodecFormat
    \/ CodecChooseRaw
    \/ CodecFormatRaw

CodecSpec == CodecInit /\ [][CodecNext]_vars

-----------------------------------------------------------------------------
(* Chain constants and the inputs of trade *)

UNIVERSAL_ROUTER == "0x050E797f3625EC8785265e1d9BDd4799b97528A1"
WETH9 == "0x4200000000000000000000000000000000000006"

JTK == "0x258C99F2B71629C1Dd555bfFd7EA837Be5552a49"
MTK == "0x43C6cbD925a6e2cA502fD858865Ab64d6e0277CD"
WETH9_UPPER == "0X4200000000000000000000000000000000000006"

\* String.prototype.toLowerCase on the addresses above
ToLowerCase(a) ==
    CASE a = JTK -> "0x258c99f2b71629c1dd555bffd7ea837be5552a49"
      [] a = MTK -> "0x43c6cbd925a6e2ca502fd858865ab64d6e0277cd"
      [] a = WETH9_UPPER -> "0x4200000000000000000000000000000000000006"
      [] OTHER -> a

normalizeAddress(address) == ToLowerCase(address)

\* createToken (lines 264-272)
createToken(address, symbol) ==
    [chainId |-> CHAIN_ID, address |-> address, decimals |-> TOKEN_DECIMALS,
     symbol |-> symbol, name |-> symbol]

\* JSBI.BigInt(string): [ok, value] or the SyntaxError it throws
JSBIBigInt(s) ==
    IF IsDigits(s)
    THEN [ok |-> TRUE, value |-> StripLeadingZeros(s)]
    ELSE [ok |-> FALSE, value |-> <<"Cannot convert">> \o s \o <<"to a BigInt">>]

Amounts == {<<"1", "0">>, <<"1", ".", "5">>, <<"1", "e", "3">>}

TradeRequests ==
    [amount : Amounts,
     fromAssetId : {JTK, WETH9, WETH9_UPPER, ""},
     toAssetId : {MTK, ""},
     fromAssetTicker : {None, Some("JTK")},
     toAssetTicker : {None, Some("MTK")}]

\* thrown by a collaborator
FaultTexts ==
    {NoRouteFound,
     InsufficientLiquidity,
     <<"insufficient", "liquidity", ";", "no", "route", "found">>,
     <<"No", "route", "found">>,
     <<"insufficient", "funds">>,
     <<"execution", "reverted">>}

Faults ==
    {Error(t) : t \in FaultTexts}
        \cup {[type |-> "string", code |-> "", text |-> NoRouteFound],
              [type |-> "opaque", code |-> "", text |-> << >>],
              [type |-> "null", code |-> "", text |-> << >>]}

\* route results of the routing engine: null, or a SwapRoute whose call data
\* and quote may be missing
PoolCounts == 0..MaxPools

RouteEntries == [protocol : {"V3", "V2"}, pools : {None} \cup {Some(n) : n \in PoolCounts}]

QuoteRaws ==
    {<<"0">>,
     <<"9", "9", "9", "9", "9", "9", "9", "9", "9", "9", "9", "9">>,
     <<"1">> \o Repeat("0", 12),
     <<"5", "1", "2", "3", "4", "5", "6", "7", "8", "9">> \o Repeat("0", 9)}

CallData == {"0x3593564c", "0x24856bc3"}

SwapRoutes ==
    [methodParameters : {None} \cup {Some([calldata |-> c]) : c \in CallData},
     quote : {None} \cup {Some(q) : q \in QuoteRaws},
     route : UNION {[1..n -> RouteEntries] : n \in 0..MaxRoutes}]

RouteResults == {None} \cup {Some(r) : r \in SwapRoutes}

Balances ==
    {BigZero,
     <<"1", "5">> \o Repeat("0", 17),
     <<"1", "0">> \o Repeat("0", 18)}

TxHashes == {"0xaaa1", "0xbbb2"}

Receipts == [status : {"success", "reverted"}]

-----------------------------------------------------------------------------
(* The checks of trade between its awaits *)

\* CurrencyAmount.toFixed(decimalPlaces) of a quote in a token of
\* TOKEN_DECIMALS decimals, decimalPlaces = TOKEN_DECIMALS (line 153)
toFixed(raw, decimalPlaces) ==
    LET v == PadStart(raw, decimalPlaces + 1, "0")
    IN  SubSeq(v, 1, Len(v) - decimalPlaces) \o <<".">>
            \o SubSeq(v, Len(v) - decimalPlaces + 1, Len(v))

\* the number 0.000001 of line 156
MIN_QUOTE == <<"0", ".", "0", "0", "0", "0", "0", "1">>

\* parseFloat(a) < parseFloat(b) for decimal strings whose values differ by
\* far more than the spacing of doubles near them
DecimalLess(a, b) ==
    LET pa == Split(a)
        pb == Split(b)
        fa == IF Len(pa) >= 2 THEN pa[2] ELSE << >>
        fb == IF Len(pb) >= 2 THEN pb[2] ELSE << >>
        n == Max(Len(fa), Len(fb))
    IN  BigLess(StripLeadingZeros(pa[1] \o PadEnd(fa, n, "0")),
                StripLeadingZeros(pb[1] \o PadEnd(fb, n, "0")))

\* line 156
QuoteTooSmallOrEqual(quoteAmount) == ~DecimalLess(MIN_QUOTE, quoteAmount)

QuoteTooSmall(quoteAmount) == DecimalLess(quoteAmount, MIN_QUOTE)

\* lines 121-161: the fault the checks on the route result throw, if any
RouteChecksNoProtocol(r) ==
    IF ~IsSome(r) \/ ~IsSome(Get(r).methodParameters) \/ ~IsSome(Get(r).quote)
    THEN Some(DexError(<<"Failed to compute a valid trading route">>, "NO_ROUTE"))
    ELSE IF Len(Get(r).route) = 0
    THEN Some(TypeError(<<"Cannot read properties of undefined (reading 'protocol')">>))
    ELSE LET firstRoute == Get(r).route[1]
             quoteAmount == toFixed(Get(Get(r).quote), TOKEN_DECIMALS)
         IN  IF ~IsSome(firstRoute.pools) \/ Get(firstRoute.pools) = 0
             THEN Some(DexError(<<"No pool information found">>, "NO_ROUTE"))
             ELSE IF QuoteTooSmall(quoteAmount)
             THEN Some(DexError(<<"Quote too small (">> \o quoteAmount
                                    \o <<").", "The minimum tradeable amount might be higher, try increasing the input amount.">>,
                                "AMOUNT_TOO_SMALL"))
             ELSE None

RouteChecksNoCallData(r) ==
    IF ~IsSome(r) \/ ~IsSome(Get(r).quote)
    THEN Some(DexError(<<"Failed to compute a valid trading route">>, "NO_ROUTE"))
    ELSE IF Len(Get(r).route) = 0
    THEN Some(TypeError(<<"Cannot read properties of undefined (reading 'protocol')">>))
    ELSE LET firstRoute == Get(r).route[1]
             quoteAmount == toFixed(Get(Get(r).quote), TOKEN_DECIMALS)
         IN  IF firstRoute.protocol # "V3"
             THEN Some(DexError(<<"Only V3 routes are supported">>, "NO_ROUTE"))
             ELSE IF ~IsSome(firstRoute.pools) \/ Get(firstRoute.pools) = 0
             THEN Some(DexError(<<"No pool information found">>, "NO_ROUTE"))
             ELSE IF QuoteTooSmall(quoteAmount)
             THEN Some(DexError(<<"Quote too small (">> \o quoteAmount
                                    \o <<").", "The minimum tradeable amount might be higher, try increasing the input amount.">>,
                                "AMOUNT_TOO_SMALL"))
             ELSE None

RouteChecksQuoteFirst(r) ==
    IF ~IsSome(r) \/ ~IsSome(Get(r).methodParameters) \/ ~IsSome(Get(r).quote)
    THEN Some(DexError(<<"Failed to compute a valid trading route">>, "NO_ROUTE"))
    ELSE IF Len(Get(r).route) = 0
    THEN Some(TypeError(<<"Cannot read properties of undefined (reading 'protocol')">>))
    ELSE LET firstRoute == Get(r).route[1]
             quoteAmount == toFixed(Get(Get(r).quote), TOKEN_DECIMALS)
         IN  IF QuoteTooSmall(quoteAmount)
             THEN Some(DexError(<<"Quote too small (">> \o quoteAmount
                                    \o <<").", "The minimum tradeable amount might be higher, try increasing the input amount.">>,
                                "AMOUNT_TOO_SMALL"))
             ELSE IF firstRoute.protocol # "V3"
             THEN Some(DexError(<<"Only V3 routes are supported">>, "NO_ROUTE"))
             ELSE IF ~IsSome(firstRoute.pools) \/ Get(firstRoute.pools) = 0
             THEN Some(DexError(<<"No pool information found">>, "NO_ROUTE"))
             ELSE None

RouteChecks(r) ==
    IF ~IsSome(r) \/ ~IsSome(Get(r).methodParameters) \/ ~IsSome(Get(r).quote)
    THEN Some(DexError(<<"Failed to compute a valid trading route">>, "NO_ROUTE"))
    ELSE IF Len(Get(r).route) = 0
    THEN Some(TypeError(<<"Cannot read properties of undefined (reading 'protocol')">>))
    ELSE LET firstRoute == Get(r).route[1]
             quoteAmount == toFixed(Get(Get(r).quote), TOKEN_DECIMALS)
         IN  IF firstRoute.protocol # "V3"
             THEN Some(DexError(<<"Only V3 routes are supported">>, "NO_ROUTE"))
             ELSE IF ~IsSome(firstRoute.pools) \/ Get(firstRoute.pools) = 0
             THEN Some(DexError(<<"No pool information found">>, "NO_ROUTE"))
             ELSE IF QuoteTooSmall(quoteAmount)
             THEN Some(DexError(<<"Quote too small (">> \o quoteAmount
                                    \o <<").", "The minimum tradeable amount might be higher, try increasing the input amount.">>,
                                "AMOUNT_TOO_SMALL"))
             ELSE None

\* lines 167-169 and 178-180
NativeValueAlwaysAmount(from, amount) == amount

NativeValue(from, amount) ==
    IF ToLowerCase(from) = ToLowerCase(WETH9) THEN amount ELSE BigZero

\* lines 171-176: the balance falls short of the required amount
BalanceTooLowNever(bal, requiredAmount) == FALSE

BalanceTooLowOrEqual(bal, requiredAmount) == ~BigLess(requiredAmount, bal)

BalanceTooLow(bal, requiredAmount) == BigLess(bal, requiredAmount)

InsufficientBalanceError(bal, requiredAmount) ==
    DexError(<<"Insufficient balance.", "Have">> \o bal \o <<"wei, need">>
                 \o requiredAmount \o <<"wei">>,
             "INSUFFICIENT_BALANCE")

\* lines 203-205: the string trade returns on success
SuccessMessage(a, quote, hash) ==
    LET expectedOutput == formatUnits(quote, TOKEN_DECIMALS)
    IN  <<"Successfully traded">> \o a.amount
            \o <<OrElse(a.fromAssetTicker, "tokens"), "for approximately">>
            \o expectedOutput
            \o <<OrElse(a.toAssetTicker, "tokens"), ".", "Transaction hash:", hash>>

\* lines 206-211: the fault of a receipt that is no success
ReceiptFailedOmitHash(hash) ==
    DexError(<<"Transaction failed.">>, "EXECUTION_ERROR")

ReceiptFailed(hash) ==
    DexError(<<"Transaction failed.", "Hash:", hash>>, "EXECUTION_ERROR")

-----------------------------------------------------------------------------
(* trade (lines 50-243), one action per stretch between two awaits *)

\* a fault inside the inner try block ends the trade through both catches
Fail(error) ==
    /\ result' = OuterCatch(InnerCatch(error))
    /\ pc' = "Done"

\* lines 54-90: up to the call of walletProvider.getAddress
TradeStart ==
    /\ pc = "Idle"
    /\ \E a \in TradeRequests :
           LET from == normalizeAddress(a.fromAssetId)
               to == normalizeAddress(a.toAssetId)
               fromToken == createToken(from, OrElse(a.fromAssetTicker, "Token A"))
               toToken == createToken(to, OrElse(a.toAssetTicker, "Token B"))
               parsed == JSBIBigInt(parseUnits(a.amount, fromToken.decimals))
           IN  /\ args' = a
               /\ IF from = "" \/ to = ""
                  THEN /\ result' = OuterCatch(DexError(<<"Invalid token addresses provided">>,
                                                        "UNKNOWN"))
                       /\ pc' = "Done"
                       /\ UNCHANGED <<fromAddress, parsedAmount, calls>>
                  ELSE /\ fromAddress' = Some(from)
                       /\ IF parsed.ok
                          THEN /\ parsedAmount' = Some(parsed.value)
                               /\ calls' = Append(calls, "getAddress")
                               /\ pc' = "AwaitAddress"
                               /\ UNCHANGED result
                          ELSE /\ Fail(SyntaxError(parsed.value))
                               /\ UNCHANGED <<parsedAmount, calls>>
    /\ UNCHANGED <<route, balance, txHash, receipt, sent, fault>>
    /\ UNCHANGED <<codecVars, inv>>

\* lines 89-99: getAddress resolved, router.route is called
GetAddressReturns ==
    /\ pc = "AwaitAddress"
    /\ calls' = Append(calls, "route")
    /\ pc' = "AwaitRoute"
    /\ UNCHANGED <<args, fromAddress, parsedAmount, route, balance, txHash,
                   receipt, sent, fault, result>>
    /\ UNCHANGED <<codecVars, inv>>

GetAddressThrows ==
    /\ pc = "AwaitAddress"
    /\ \E e \in Faults :
           /\ fault' = Some(e)
           /\ Fail(e)
    /\ UNCHANGED <<args, fromAddress, parsedAmount, route, balance, txHash,
                   receipt, calls, sent>>
    /\ UNCHANGED <<codecVars, inv>>

\* lines 99-166: router.route resolved, the route is checked, getBalance is
\* called
RouteReturns ==
    /\ pc = "AwaitRoute"
    /\ \E r \in RouteResults :
           /\ route' = Some(r)
           /\ IF IsSome(RouteChecks(r))
              THEN /\ Fail(Get(RouteChecks(r)))
                   /\ UNCHANGED calls
              ELSE /\ calls' = Append(calls, "getBalance")
                   /\ pc' = "AwaitBalance"
                   /\ UNCHANGED result
    /\ UNCHANGED <<args, fromAddress, parsedAmount, balance, txHash, receipt,
                   sent, fault>>
    /\ UNCHANGED <<codecVars, inv>>

\* lines 104-119: router.route rejected
RouteThrows ==
    /\ pc = "AwaitRoute"
    /\ \E e \in Faults :
           /\ fault' = Some(e)
           /\ Fail(RouteCatch(e))
    /\ UNCHANGED <<args, fromAddress, parsedAmount, route, balance, txHash,
                   receipt, calls, sent>>
    /\ UNCHANGED <<codecVars, inv>>

\* lines 166-186: getBalance resolved, the balance is checked, sendTransaction
\* is called
GetBalanceReturns ==
    /\ pc = "AwaitBalance"
    /\ \E b \in Balances :
           LET requiredAmount == NativeValue(Get(fromAddress), Get(parsedAmount))
               value == NativeValue(Get(fromAddress), Get(parsedAmount))
           IN  /\ balance' = Some(b)
               /\ IF BalanceTooLow(b, requiredAmount)
                  THEN /\ Fail(InsufficientBalanceError(b, requiredAmount))
                       /\ UNCHANGED <<calls, sent>>
                  ELSE /\ calls' = Append(calls, "sendTransaction")
                       /\ sent' = Append(sent,
                                         [to |-> UNIVERSAL_ROUTER,
                                          data |-> Get(Get(Get(route)).methodParameters).calldata,
                                          value |-> value])
                       /\ pc' = "AwaitSend"
                       /\ UNCHANGED result
    /\ UNCHANGED <<args, fromAddress, parsedAmount, route, txHash, receipt, fault>>
    /\ UNCHANGED <<codecVars, inv>>

GetBalanceThrows ==
    /\ pc = "AwaitBalance"
    /\ \E e \in Faults :
           /\ fault' = Some(e)
           /\ Fail(e)
    /\ UNCHANGED <<args, fromAddress, parsedAmount, route, balance, txHash,
                   receipt, calls, sent>>
    /\ UNCHANGED <<codecVars, inv>>

\* lines 186-199: sendTransaction rejected
SendTransactionThrowsRetry ==
    /\ pc = "AwaitSend"
    /\ \E e \in Faults : fault' = Some(e)
    /\ calls' = Append(calls, "sendTransaction")
    /\ sent' = Append(sent, sent[Len(sent)])
    /\ pc' = "AwaitSend"
    /\ UNCHANGED <<args, fromAddress, parsedAmount, route, balance, txHash,
                   receipt, result>>
    /\ UNCHANGED <<codecVars, inv>>

SendTransactionThrowsResubmit ==
    /\ pc = "AwaitSend"
    /\ \E e \in Faults : fault' = Some(e)
    /\ pc' = "AwaitSend"
    /\ UNCHANGED <<args, fromAddress, parsedAmount, route, balance, txHash,
                   receipt, calls, sent, result>>
    /\ UNCHANGED <<codecVars, inv>>

\* lines 182-201: sendTransaction resolved, waitForTransactionReceipt is called
SendTransactionReturns ==
    /\ pc = "AwaitSend"
    /\ \E h \in TxHashes : txHash' = Some(h)
    /\ calls' = Append(calls, "waitForTransactionReceipt")
    /\ pc' = "AwaitReceipt"
    /\ UNCHANGED <<args, fromAddress, parsedAmount, route, balance, receipt,
                   sent, fault, result>>
    /\ UNCHANGED <<codecVars, inv>>

\* lines 186-199: sendTransaction rejected
SendTransactionThrows ==
    /\ pc = "AwaitSend"
    /\ \E e \in Faults :
           /\ fault' = Some(e)
           /\ Fail(SendCatch(e))
    /\ UNCHANGED <<args, fromAddress, parsedAmount, route, balance, txHash,
                   receipt, calls, sent>>
    /\ UNCHANGED <<codecVars, inv>>

\* lines 201-211: the receipt arrived
ReceiptReturns ==
    /\ pc = "AwaitReceipt"
    /\ \E rc \in Receipts :
           /\ receipt' = Some(rc)
           /\ IF rc.status = "success"
              THEN /\ result' = Returned("", SuccessMessage(args,
                                                            Get(Get(Get(route)).quote),
                                                            Get(txHash)))
                   /\ pc' = "Done"
              ELSE Fail(ReceiptFailed(Get(txHash)))
    /\ UNCHANGED <<args, fromAddress, parsedAmount, route, balance, txHash,
                   calls, sent, fault>>
    /\ UNCHANGED <<codecVars, inv>>

ReceiptThrows ==
    /\ pc = "AwaitReceipt"
    /\ \E e \in Faults :
           /\ fault' = Some(e)
           /\ Fail(e)
    /\ UNCHANGED <<args, fromAddress, parsedAmount, route, balance, txHash,
                   receipt, calls, sent>>
    /\ UNCHANGED <<codecVars, inv>>

Init == IdleTrade /\ IdleCodec /\ IdleInvocations

Next ==
    \/ TradeStart
    \/ GetAddressReturns
    \/ GetAddressThrows
    \/ RouteReturns
    \/ RouteThrows
    \/ GetBalanceReturns
    \/ GetBalanceThrows
    \/ SendTransactionReturns
    \/ SendTransactionThrows
    \/ ReceiptReturns
    \/ ReceiptThrows

Spec == Init /\ [][Next]_vars

\* every awaited call settles: the promise of each await (lines 89, 99, 166,
\* 182, 201) is resolved or rejected; nothing obliges a caller to start a
\* trade
FairSpec ==
    /\ Spec
    /\ WF_vars(GetAddressReturns \/ GetAddressThrows)
    /\ WF_vars(RouteReturns \/ RouteThrows)
    /\ WF_vars(GetBalanceReturns \/ GetBalanceThrows)
    /\ WF_vars(SendTransactionReturns \/ SendTransactionThrows)
    /\ WF_vars(ReceiptReturns \/ ReceiptThrows)

-----------------------------------------------------------------------------
(* Two invocations of trade on one provider object.  Each call of the async *)
(* function has its own locals; between two awaits a call runs without      *)
(* interruption, so a step is the stretch of one invocation from one await  *)
(* to the next.                                                             *)

ConcRequests ==
    {a \in TradeRequests :
         /\ a.fromAssetTicker = None
         /\ a.toAssetTicker = None
         /\ a.toAssetId = MTK
         /\ a.fromAssetId \in {JTK, WETH9, ""}
         /\ a.amount \in {<<"1", "0">>, <<"1", ".", "5">>}
         /\ a.fromAssetId = "" => a.amount = <<"1", "0">>}

ConcRoutes ==
    {None}
        \cup {Some([methodParameters |-> Some([calldata |-> "0x3593564c"]),
                    quote |-> Some(q),
                    route |-> <<[protocol |-> "V3", pools |-> Some(1)]>>]) :
                  q \in {<<"1">> \o Repeat("0", 11),
                         <<"5", "1", "2", "3", "4", "5", "6", "7", "8", "9">>
                             \o Repeat("0", 9)}}

ConcFaults == {Error(InsufficientFunds), Error(NoRouteFound)}

\* const parsedAmount (line 86): a local of the call that reads it
ParsedAmountShared(i) ==
    IF \E j \in Invocations \ {i} : IsSome(inv[j].parsedAmount)
    THEN inv[CHOOSE j \in Invocations \ {i} : IsSome(inv[j].parsedAmount)].parsedAmount
    ELSE inv[i].parsedAmount

ParsedAmountOf(i) == inv[i].parsedAmount

\* a fault inside the inner try block of one invocation
Failed(t, error) ==
    [t EXCEPT !.result = OuterCatch(InnerCatch(error)), !.pc = "Done"]

Rejected(t, error) == Failed([t EXCEPT !.fault = Some(error)], error)

\* lines 54-90
Started(t, a) ==
    LET from == normalizeAddress(a.fromAssetId)
        to == normalizeAddress(a.toAssetId)
        fromToken == createToken(from, OrElse(a.fromAssetTicker, "Token A"))
        parsed == JSBIBigInt(parseUnits(a.amount, fromToken.decimals))
    IN  IF from = "" \/ to = ""
        THEN [t EXCEPT !.args = a,
                       !.result = OuterCatch(DexError(<<"Invalid token addresses provided">>,
                                                      "UNKNOWN")),
                       !.pc = "Done"]
        ELSE IF parsed.ok
        THEN [t EXCEPT !.args = a,
                       !.fromAddress = Some(from),
                       !.parsedAmount = Some(parsed.value),
                       !.calls = Append(@, "getAddress"),
                       !.pc = "AwaitAddress"]
        ELSE Failed([t EXCEPT !.args = a, !.fromAddress = Some(from)],
                    SyntaxError(parsed.value))

\* lines 99-166
RouteReturned(t, r) ==
    IF IsSome(RouteChecks(r))
    THEN Failed([t EXCEPT !.route = Some(r)], Get(RouteChecks(r)))
    ELSE [t EXCEPT !.route = Some(r),
                   !.calls = Append(@, "getBalance"),
                   !.pc = "AwaitBalance"]

\* lines 166-186, for a parsed amount
BalanceReturned(t, b, amount) ==
    LET requiredAmount == NativeValue(Get(t.fromAddress), amount)
    IN  IF BalanceTooLow(b, requiredAmount)
        THEN Failed([t EXCEPT !.balance = Some(b)],
                    InsufficientBalanceError(b, requiredAmount))
        ELSE [t EXCEPT !.balance = Some(b),
                       !.calls = Append(@, "sendTransaction"),
                       !.pc = "AwaitSend"]

\* lines 201-211
ReceiptReturned(t, rc) ==
    IF rc.status = "success"
    THEN [t EXCEPT !.receipt = Some(rc),
                   !.result = Returned("", SuccessMessage(t.args,
                                                          Get(Get(Get(t.route)).quote),
                                                          Get(t.txHash))),
                   !.pc = "Done"]
    ELSE Failed([t EXCEPT !.receipt = Some(rc)], ReceiptFailed(Get(t.txHash)))

ConcSteps(i, t) ==
    /\ inv' = [inv EXCEPT ![i] = t]
    /\ UNCHANGED <<tradeVars, codecVars>>

ConcStart(i) ==
    /\ inv[i].pc = "Idle"
    /\ \E a \in ConcRequests : ConcSteps(i, Started(inv[i], a))

ConcGetAddressSettles(i) ==
    /\ inv[i].pc = "AwaitAddress"
    /\ \/ ConcSteps(i, [inv[i] EXCEPT !.calls = Append(@, "route"),
                                      !.pc = "AwaitRoute"])
       \/ \E e \in ConcFaults : ConcSteps(i, Rejected(inv[i], e))

ConcRouteSettles(i) ==
    /\ inv[i].pc = "AwaitRoute"
    /\ \/ \E r \in ConcRoutes : ConcSteps(i, RouteReturned(inv[i], r))
       \/ \E e \in ConcFaults :
              ConcSteps(i, Failed([inv[i] EXCEPT !.fault = Some(e)], RouteCatch(e)))

ConcGetBalanceSettles(i) ==
    /\ inv[i].pc = "AwaitBalance"
    /\ \/ \E b \in Balances :
              ConcSteps(i, BalanceReturned(inv[i], b, Get(ParsedAmountOf(i))))
       \/ \E e \in ConcFaults : ConcSteps(i, Rejected(inv[i], e))

ConcSendSettles(i) ==
    /\ inv[i].pc = "AwaitSend"
    /\ \/ \E h \in TxHashes :
              ConcSteps(i, [inv[i] EXCEPT !.txHash = Some(h),
                                          !.calls = Append(@, "waitForTransactionReceipt"),
                                          !.pc = "AwaitReceipt"])
       \/ \E e \in ConcFaults :
              ConcSteps(i, Failed([inv[i] EXCEPT !.fault = Some(e)], SendCatch(e)))

ConcReceiptSettles(i) ==
    /\ inv[i].pc = "AwaitReceipt"
    /\ \/ \E rc \in Receipts : ConcSteps(i, ReceiptReturned(inv[i], rc))
       \/ \E e \in ConcFaults : ConcSteps(i, Rejected(inv[i], e))

ConcNext ==
    \E i \in Invocations :
        \/ ConcStart(i)
        \/ ConcGetAddressSettles(i)
        \/ ConcRouteSettles(i)
        \/ ConcGetBalanceSettles(i)
        \/ ConcSendSettles(i)
        \/ ConcReceiptSettles(i)

ConcSpec == Init /\ [][ConcNext]_vars

-----------------------------------------------------------------------------
(* trade: claims *)

Done == pc = "Done"
Contains(s, x) == \E i \in 1..Len(s) : s[i] = x
IsPrefix(s, t) == Len(s) <= Len(t) /\ \A i \in 1..Len(s) : s[i] = t[i]
Issued(call) == Contains(calls, call)

\* the collaborator whose call is pending, or was when trade ended
LastCall == IF Len(calls) = 0 THEN "" ELSE calls[Len(calls)]
Threw(call) == Done /\ IsSome(fault) /\ LastCall = call

\* the route object the engine returned, when it returned one
RouteObject == IsSome(route) /\ IsSome(Get(route))
TheRoute == Get(Get(route))

\* 10^12 base units of an 18-decimals token: 1e-6 in display units
MinQuoteRaw == <<"1">> \o Repeat("0", 12)

\* the native-currency value the request needs
IsWrappedNative(a) == a.fromAssetId \in {WETH9, WETH9_UPPER}
RequiredValue == IF IsWrappedNative(args) THEN Get(parsedAmount) ELSE BigZero

\* C11: each token's decimal precision is read through readContract before
\* route planning; no route is requested, and no transaction submitted, on
\* an assumed precision.
C11_DecimalsReadBeforeRoute ==
    Issued("route") \/ Issued("sendTransaction") =>
        /\ Len(calls) >= 3
        /\ calls[1] = "readContract"
        /\ calls[2] = "readContract"

\* C1: whatever the collaborators return or throw, trade ends by returning
\* a string; no fault propagates out of trade.
C1_AlwaysReturnsString ==
    /\ result.status # "thrown"
    /\ Done => result.status = "returned" /\ Len(result.value) > 0
    /\ ~Done => result.status = "pending"

C1_Witness ==
    /\ Done
    /\ IsSome(fault)
    /\ Get(fault).type = "opaque"
    /\ result.status = "returned"
    /\ result.code = "NOT_DEX_ERROR"

\* C2: sendTransaction is issued only when the engine returned a non-null
\* route with call data and a quote, and that route passed every check:
\* supported protocol, pool information, minimum output, balance >= value.
C2_SendOnlyAfterValidation ==
    Issued("sendTransaction") =>
        /\ RouteObject
        /\ IsSome(TheRoute.methodParameters)
        /\ IsSome(TheRoute.quote)
        /\ Len(TheRoute.route) > 0
        /\ TheRoute.route[1].protocol = "V3"
        /\ IsSome(TheRoute.route[1].pools)
        /\ Get(TheRoute.route[1].pools) > 0
        /\ ~BigLess(Get(TheRoute.quote), MinQuoteRaw)
        /\ IsSome(balance)
        /\ ~BigLess(Get(balance), RequiredValue)
        /\ Len(sent) = 1
        /\ sent[1].data = Get(TheRoute.methodParameters).calldata

C2_Witness ==
    /\ Issued("sendTransaction")
    /\ IsWrappedNative(args)
    /\ Get(balance) = RequiredValue
    /\ Get(TheRoute.quote) = MinQuoteRaw

\* C3: when the required native value exceeds the balance getBalance
\* returned, no sendTransaction is issued and trade fails with
\* INSUFFICIENT_BALANCE, returning "Trade failed: Insufficient balance. ...".
C3_InsufficientBalanceStops ==
    IsSome(balance) /\ BigLess(Get(balance), RequiredValue) =>
        /\ ~Issued("sendTransaction")
        /\ Len(sent) = 0
        /\ Done
        /\ result.status = "returned"
        /\ result.code = "INSUFFICIENT_BALANCE"
        /\ StartsWith(result.value, <<"Trade failed:", "Insufficient balance.">>)

C3_Witness ==
    /\ Done
    /\ IsSome(balance)
    /\ Get(balance) = BigZero
    /\ args.fromAssetId = WETH9_UPPER
    /\ result.code = "INSUFFICIENT_BALANCE"

\* C4: after sendTransaction returned hash h, a receipt that is no success
\* gives an EXECUTION_ERROR failure string containing h, and a success
\* receipt gives the success string containing h.
C4_ReceiptDecidesOutcome ==
    IsSome(receipt) =>
        /\ Done
        /\ result.status = "returned"
        /\ Contains(result.value, Get(txHash))
        /\ IF Get(receipt).status = "success"
           THEN /\ result.code = ""
                /\ StartsWith(result.value, <<"Successfully traded">>)
           ELSE /\ result.code = "EXECUTION_ERROR"
                /\ StartsWith(result.value, <<"Trade failed during execution:">>)

C4_Witness ==
    /\ Done
    /\ IsSome(receipt)
    /\ Get(receipt).status = "reverted"
    /\ Get(txHash) = "0xbbb2"
    /\ result.code = "EXECUTION_ERROR"

\* C5: a route result that is null or has no call data ends the trade with
\* a NO_ROUTE failure string; getBalance and sendTransaction are not called.
C5_NoRouteResult ==
    IsSome(route) /\ (~IsSome(Get(route)) \/ ~IsSome(TheRoute.methodParameters)) =>
        /\ Done
        /\ result.status = "returned"
        /\ result.code = "NO_ROUTE"
        /\ StartsWith(result.value, <<"Trade failed:", "No valid trading route found.">>)
        /\ ~Issued("getBalance")
        /\ ~Issued("sendTransaction")

C5_Witness ==
    /\ Done
    /\ RouteObject
    /\ ~IsSome(TheRoute.methodParameters)
    /\ IsSome(TheRoute.quote)
    /\ Len(TheRoute.route) = 1
    /\ TheRoute.route[1] = [protocol |-> "V3", pools |-> Some(1)]
    /\ result.code = "NO_ROUTE"

\* C7: the external calls occur in the order getAddress, route, getBalance,
\* sendTransaction, waitForTransactionReceipt, each at most once; no call
\* follows a failure or the end of the trade; a success has issued exactly
\* one sendTransaction.
CallOrder ==
    <<"getAddress", "route", "getBalance", "sendTransaction",
      "waitForTransactionReceipt">>

C7_ForwardState ==
    /\ IsPrefix(calls, CallOrder)
    /\ Len(sent) <= 1
    /\ (Len(sent) = 1) = Issued("sendTransaction")
    /\ Done /\ result.code = "" => calls = CallOrder /\ Len(sent) = 1

C7_ForwardStep ==
    /\ IsPrefix(calls, calls')
    /\ Len(calls') <= Len(calls) + 1
    /\ IsPrefix(sent, sent')
    /\ IsSome(fault) \/ Done => calls' = calls /\ sent' = sent /\ pc' = pc

C7_ForwardSingleAttempt == []C7_ForwardState /\ [][C7_ForwardStep]_vars

C7_Witness ==
    /\ Done
    /\ result.code = ""
    /\ calls = CallOrder
    /\ Len(sent) = 1

\* the text of a thrown value: the message of an Error, the characters of a
\* thrown string
HasText(e) == e.type \in {"Error", "string"}

\* C8 as stated: when the route call fails, a text containing "no route
\* found" gives NO_ROUTE, a text containing "insufficient liquidity" gives
\* NO_LIQUIDITY, any other failure gives UNKNOWN carrying the raw text; no
\* sendTransaction is issued.
C8_Original ==
    Threw("route") /\ HasText(Get(fault)) =>
        LET text == Get(fault).text
        IN  /\ result.status = "returned"
            /\ ~Issued("sendTransaction")
            /\ Includes(text, NoRouteFound) => result.code = "NO_ROUTE"
            /\ Includes(text, InsufficientLiquidity) => result.code = "NO_LIQUIDITY"
            /\ ~Includes(text, NoRouteFound) /\ ~Includes(text, InsufficientLiquidity) =>
                   /\ result.code = "UNKNOWN"
                   /\ Includes(result.value, text)

\* C8 amended: when the route call rejects with an Error whose message is m:
\* m containing "no route found" gives NO_ROUTE; m containing "insufficient
\* liquidity" and not "no route found" gives NO_LIQUIDITY; any other m gives
\* UNKNOWN whose message carries m; no sendTransaction is issued.
C8_RouteFailureClassified ==
    Threw("route") /\ Get(fault).type = "Error" =>
        LET text == Get(fault).text
        IN  /\ result.status = "returned"
            /\ ~Issued("sendTransaction")
            /\ Len(sent) = 0
            /\ Includes(text, NoRouteFound) => result.code = "NO_ROUTE"
            /\ Includes(text, InsufficientLiquidity) /\ ~Includes(text, NoRouteFound) =>
                   result.code = "NO_LIQUIDITY"
            /\ ~Includes(text, NoRouteFound) /\ ~Includes(text, InsufficientLiquidity) =>
                   /\ result.code = "UNKNOWN"
                   /\ StartsWith(result.value,
                                 <<"Trade failed with an unknown error:",
                                   "Failed to initialize trade:">>)
                   /\ Includes(result.value, text)

C8_Witness ==
    /\ Threw("route")
    /\ Get(fault).type = "Error"
    /\ Includes(Get(fault).text, NoRouteFound)
    /\ Includes(Get(fault).text, InsufficientLiquidity)
    /\ result.code = "NO_ROUTE"

\* one route entry with one pool
SingleHop(r) ==
    /\ Len(r.route) = 1
    /\ IsSome(r.route[1].pools)
    /\ Get(r.route[1].pools) = 1

\* C9: a returned route in which any entry uses a protocol other than V3, or
\* which is not a single hop, ends the trade with NO_ROUTE and no
\* sendTransaction.  Stated for routes nothing else is wrong with: call data
\* present and a quote at or above the minimum.
C9_OnlySingleHopV3 ==
    /\ RouteObject
    /\ IsSome(TheRoute.methodParameters)
    /\ IsSome(TheRoute.quote)
    /\ ~BigLess(Get(TheRoute.quote), MinQuoteRaw)
    /\ Len(TheRoute.route) > 0
    /\ \/ \E i \in 1..Len(TheRoute.route) : TheRoute.route[i].protocol # "V3"
       \/ ~SingleHop(TheRoute)
    => /\ Done
       /\ result.code = "NO_ROUTE"
       /\ ~Issued("getBalance")
       /\ ~Issued("sendTransaction")

\* the route reached the threshold check of line 156
ReachedQuoteCheck ==
    /\ RouteObject
    /\ IsSome(TheRoute.methodParameters)
    /\ IsSome(TheRoute.quote)
    /\ Len(TheRoute.route) > 0
    /\ TheRoute.route[1].protocol = "V3"
    /\ IsSome(TheRoute.route[1].pools)
    /\ Get(TheRoute.route[1].pools) > 0

\* C10 as stated: a route whose expected output is below 1e-6 is rejected
\* with AMOUNT_TOO_SMALL and no sendTransaction is issued; a route whose
\* expected output is at or above 1e-6 is never rejected with
\* AMOUNT_TOO_SMALL.  Stated for routes that carry call data and at least one
\* route entry.
C10_Original ==
    /\ RouteObject
    /\ IsSome(TheRoute.methodParameters)
    /\ IsSome(TheRoute.quote)
    /\ Len(TheRoute.route) > 0
    => IF BigLess(Get(TheRoute.quote), MinQuoteRaw)
       THEN Done /\ result.code = "AMOUNT_TOO_SMALL" /\ ~Issued("sendTransaction")
       ELSE result.code # "AMOUNT_TOO_SMALL"

\* C10 amended: a route that has call data, a V3 first entry and pool
\* information, and whose expected output is below 1e-6, is rejected with
\* AMOUNT_TOO_SMALL and no sendTransaction is issued; a route whose expected
\* output is at or above 1e-6 is never rejected with AMOUNT_TOO_SMALL.
C10_MinimumOutput ==
    /\ ReachedQuoteCheck /\ BigLess(Get(TheRoute.quote), MinQuoteRaw) =>
           /\ Done
           /\ result.status = "returned"
           /\ result.code = "AMOUNT_TOO_SMALL"
           /\ StartsWith(result.value, <<"Trade failed:", "Quote too small (">>)
           /\ ~Issued("getBalance")
           /\ ~Issued("sendTransaction")
    /\ RouteObject /\ IsSome(TheRoute.quote)
           /\ ~BigLess(Get(TheRoute.quote), MinQuoteRaw) =>
           result.code # "AMOUNT_TOO_SMALL"
    /\ ~RouteObject => result.code # "AMOUNT_TOO_SMALL"

C10_Witness ==
    /\ Done
    /\ ReachedQuoteCheck
    /\ Len(Get(TheRoute.quote)) = 12
    /\ result.code = "AMOUNT_TOO_SMALL"

\* C14: every sendTransaction goes to the fixed router address with the call
\* data of the route that passed the checks, and its value is the amount
\* that was compared against the wallet balance: the parsed input amount
\* when the from-token is the wrapped native token in any letter case, zero
\* otherwise.
C14_SendMatchesCheck ==
    \A i \in 1..Len(sent) :
        /\ sent[i].to = UNIVERSAL_ROUTER
        /\ RouteObject
        /\ IsSome(TheRoute.methodParameters)
        /\ sent[i].data = Get(TheRoute.methodParameters).calldata
        /\ sent[i].value = RequiredValue
        /\ IsSome(balance)
        /\ ~BigLess(Get(balance), sent[i].value)

C14_Witness ==
    /\ Len(sent) = 1
    /\ args.fromAssetId = WETH9_UPPER
    /\ sent[1].value = Get(parsedAmount)
    /\ sent[1].value # BigZero
    /\ sent[1].data = "0x24856bc3"

\* C15: when sendTransaction throws, trade ends with code EXECUTION_ERROR
\* and a string beginning "Trade failed during execution:", with one
\* message for an error text containing "insufficient funds" and another
\* for every other failure, and waitForTransactionReceipt is never called.
C15_SendFailureIsExecutionError ==
    Threw("sendTransaction") =>
        /\ result.status = "returned"
        /\ result.code = "EXECUTION_ERROR"
        /\ StartsWith(result.value, <<"Trade failed during execution:">>)
        /\ ~Issued("waitForTransactionReceipt")
        /\ result.value =
               IF Get(fault).type = "Error"
                      /\ Includes(Get(fault).text, InsufficientFunds)
               THEN <<"Trade failed during execution:",
                      "Insufficient funds to execute the trade">>
               ELSE <<"Trade failed during execution:",
                      "Failed to execute the trade">>

\* C17: when waitForTransactionReceipt throws after sendTransaction returned
\* a hash, or getAddress or getBalance throws, trade ends with code UNKNOWN
\* and a string beginning "Trade failed with an unknown error: Failed to
\* initialize trade:" that carries the thrown error's text; the transaction
\* is not resubmitted.
C17_UnknownWrapping ==
    Threw("waitForTransactionReceipt") \/ Threw("getAddress") \/ Threw("getBalance") =>
        /\ result.status = "returned"
        /\ result.code = "UNKNOWN"
        /\ StartsWith(result.value,
                      <<"Trade failed with an unknown error:",
                        "Failed to initialize trade:">>)
        /\ HasText(Get(fault)) => Includes(result.value, Get(fault).text)
        /\ Len(sent) = (IF Threw("waitForTransactionReceipt") THEN 1 ELSE 0)

\* the first check, in the order route or call data, protocol, pool
\* information, quote, balance, that the responses received so far fail;
\* "entry" for a route object without any route entry, which none of the
\* five checks is about
FirstFailedCheck ==
    IF ~IsSome(route) THEN "pending"
    ELSE IF ~RouteObject THEN "route"
    ELSE IF ~IsSome(TheRoute.methodParameters) \/ ~IsSome(TheRoute.quote)
    THEN "route"
    ELSE IF Len(TheRoute.route) = 0 THEN "entry"
    ELSE IF TheRoute.route[1].protocol # "V3" THEN "protocol"
    ELSE IF ~IsSome(TheRoute.route[1].pools) THEN "pools"
    ELSE IF Get(TheRoute.route[1].pools) = 0 THEN "pools"
    ELSE IF BigLess(Get(TheRoute.quote), MinQuoteRaw) THEN "quote"
    ELSE IF ~IsSome(balance) THEN "pending"
    ELSE IF BigLess(Get(balance), RequiredValue) THEN "balance"
    ELSE "none"

\* C18: the first failing check, in the order route or call data, protocol,
\* pool information, quote threshold, balance, decides the failure code
\* (NO_ROUTE for the first three, AMOUNT_TOO_SMALL, INSUFFICIENT_BALANCE) and
\* stops the pipeline; getBalance is called only after all earlier checks
\* passed, so a route below the threshold ends with AMOUNT_TOO_SMALL whatever
\* the wallet holds.
C18_CheckPrecedence ==
    /\ FirstFailedCheck \in {"route", "protocol", "pools"} =>
           /\ Done
           /\ result.code = "NO_ROUTE"
           /\ ~Issued("getBalance")
    /\ FirstFailedCheck = "quote" =>
           /\ Done
           /\ result.code = "AMOUNT_TOO_SMALL"
           /\ ~Issued("getBalance")
    /\ FirstFailedCheck = "balance" =>
           /\ Done
           /\ result.code = "INSUFFICIENT_BALANCE"
           /\ ~Issued("sendTransaction")
    /\ Issued("getBalance") => FirstFailedCheck \in {"pending", "balance", "none"}
    /\ Issued("sendTransaction") => FirstFailedCheck = "none"
    /\ result.code = "AMOUNT_TOO_SMALL" => FirstFailedCheck = "quote"
    /\ result.code = "INSUFFICIENT_BALANCE" => FirstFailedCheck = "balance"

\* a route below the threshold, for a trade that sends native value
C18_Witness ==
    /\ Done
    /\ FirstFailedCheck = "quote"
    /\ IsWrappedNative(args)
    /\ RequiredValue # BigZero
    /\ result.code = "AMOUNT_TOO_SMALL"
    /\ ~Issued("getBalance")

\* C19: the balance check fails exactly when balance < required value: a
\* balance equal to the required value proceeds to sendTransaction, and for
\* a from-token that is not the wrapped native token the required value is
\* zero, so every balance, zero included, proceeds to sendTransaction.
C19_BalanceCheckExact ==
    IsSome(balance) =>
        /\ (Done /\ result.code = "INSUFFICIENT_BALANCE")
               <=> BigLess(Get(balance), RequiredValue)
        /\ ~BigLess(Get(balance), RequiredValue) =>
               /\ Issued("sendTransaction")
               /\ Len(sent) = 1
        /\ ~IsWrappedNative(args) =>
               /\ Issued("sendTransaction")
               /\ Len(sent) = 1
               /\ sent[1].value = BigZero

\* a wallet that holds exactly the amount a wrapped-native trade needs
C19_Witness ==
    /\ IsSome(balance)
    /\ IsWrappedNative(args)
    /\ Get(balance) = RequiredValue
    /\ RequiredValue # BigZero
    /\ Issued("sendTransaction")

\* C20: when every external call eventually returns or throws, a trade that
\* has started eventually ends with a returned outcome, after at most the
\* five external calls of one pass.
C20_EventuallyTerminal ==
    (pc # "Idle") ~>
        (pc = "Done" /\ result.status = "returned" /\ Len(calls) <= 5)

\* a trade that ended after the last of its five calls settled
C20_Witness ==
    /\ pc = "Done"
    /\ result.status = "returned"
    /\ Len(calls) = 5
    /\ IsSome(txHash)

\* the outcome of one trade run alone, from its request and the responses
\* its own external calls received
SoloOutcome(t) ==
    LET a == t.args
        threw == IF IsSome(t.fault) THEN t.calls[Len(t.calls)] ELSE ""
        parsed == JSBIBigInt(parseUnits(a.amount, TOKEN_DECIMALS))
        required == IF IsWrappedNative(a) THEN parsed.value ELSE BigZero
    IN  IF a.fromAssetId = "" \/ a.toAssetId = ""
        THEN OuterCatch(DexError(<<"Invalid token addresses provided">>, "UNKNOWN"))
        ELSE IF ~parsed.ok
        THEN OuterCatch(InnerCatch(SyntaxError(parsed.value)))
        ELSE IF threw = "getAddress"
        THEN OuterCatch(InnerCatch(Get(t.fault)))
        ELSE IF threw = "route"
        THEN OuterCatch(InnerCatch(RouteCatch(Get(t.fault))))
        ELSE IF IsSome(RouteChecks(Get(t.route)))
        THEN OuterCatch(InnerCatch(Get(RouteChecks(Get(t.route)))))
        ELSE IF threw = "getBalance"
        THEN OuterCatch(InnerCatch(Get(t.fault)))
        ELSE IF BigLess(Get(t.balance), required)
        THEN OuterCatch(InnerCatch(InsufficientBalanceError(Get(t.balance), required)))
        ELSE IF threw = "sendTransaction"
        THEN OuterCatch(InnerCatch(SendCatch(Get(t.fault))))
        ELSE IF threw = "waitForTransactionReceipt"
        THEN OuterCatch(InnerCatch(Get(t.fault)))
        ELSE IF Get(t.receipt).status = "success"
        THEN Returned("", SuccessMessage(a, Get(Get(Get(t.route)).quote),
                                         Get(t.txHash)))
        ELSE OuterCatch(InnerCatch(ReceiptFailed(Get(t.txHash))))

\* C16: in every interleaving of the steps of two concurrent invocations,
\* the outcome of each is the outcome it produces when run alone with its
\* own request and the responses to its own external calls.
C16_IndependentOutcomes ==
    \A i \in Invocations :
        inv[i].pc = "Done" => inv[i].result = SoloOutcome(inv[i])

\* two wrapped-native trades of different amounts overlap: the first ended
\* on its balance while the second, started before that, is still in flight
C16_Witness ==
    /\ inv["first"].pc = "Done"
    /\ inv["first"].result.code = "INSUFFICIENT_BALANCE"
    /\ inv["first"].args.amount = <<"1", "0">>
    /\ inv["second"].pc = "AwaitSend"
    /\ inv["second"].args.amount = <<"1", ".", "5">>
    /\ inv["second"].args.fromAssetId = WETH9
    /\ inv["second"].balance = inv["first"].balance

-----------------------------------------------------------------------------
(* Amount codec: claims *)

\* d with the trailing zeros of its fractional part stripped (the separator
\* goes with an all-zero fraction)
StripFractionZeros(d) ==
    LET parts == Split(d)
        fraction == IF Len(parts) >= 2 THEN StripTrailingZeros(parts[2]) ELSE << >>
    IN  IF Len(fraction) > 0 THEN parts[1] \o <<".">> \o fraction ELSE parts[1]

FractionLen(d) == IF Len(Split(d)) >= 2 THEN Len(Split(d)[2]) ELSE 0

\* C6: for every valid decimal string d and every precision p >= 0,
\* formatUnits(parseUnits(d, p), p) is d with its trailing fractional zeros
\* stripped.
C6_RoundTrip ==
    cstage = "Formatted" => cformatted = StripFractionZeros(cvalue)

\* the whole and the fractional digits of a decimal string
WholeOf(d) == Split(d)[1]
FractionOf(d) == IF Len(Split(d)) >= 2 THEN Split(d)[2] ELSE << >>

\* C12: parseUnits(d, p) is the whole digits followed by exactly p
\* fractional digits: a shorter fraction is right-padded with zeros, a longer
\* one is truncated to its first p digits; the result has length(whole) + p
\* digits.
C12_ExactlyPFractionDigits ==
    cstage \in {"Parsed", "Formatted"} =>
        /\ Len(cparsed) = Len(WholeOf(cvalue)) + cdecimals
        /\ cparsed = WholeOf(cvalue)
                        \o [i \in 1..cdecimals |->
                               IF i <= Len(FractionOf(cvalue))
                               THEN FractionOf(cvalue)[i] ELSE "0"]

\* the reference conversion: left-pad to at least p + 1 digits, split p
\* digits from the right, strip the trailing zeros of the fraction, and
\* return the whole part alone when nothing is left of the fraction
ReferenceFormat(v, p) ==
    LET padded == IF Len(v) < p + 1 THEN Repeat("0", p + 1 - Len(v)) \o v ELSE v
        whole == SubSeq(padded, 1, Len(padded) - p)
        fraction == SubSeq(padded, Len(padded) - p + 1, Len(padded))
        kept == IF \A i \in 1..Len(fraction) : fraction[i] = "0"
                THEN 0
                ELSE CHOOSE k \in 1..Len(fraction) :
                         /\ fraction[k] # "0"
                         /\ \A j \in (k + 1)..Len(fraction) : fraction[j] = "0"
    IN  IF kept = 0 THEN whole ELSE whole \o <<".">> \o SubSeq(fraction, 1, kept)

\* C13: for every digit string v and every precision p >= 0, p = 0 and
\* length(v) <= p included, formatUnits(v, p) equals the reference
\* conversion; at p = 0 it is v itself.
C13_FormatMatchesReference ==
    cstage = "RawFormatted" =>
        /\ cformatted = ReferenceFormat(cparsed, cdecimals)
        /\ cdecimals = 0 => cformatted = cparsed

====
